---- MODULE Spec2Model ----
(***************************************************************************)
(* Shape-descriptor scripts of calder (scripts/feature_vector_builder.py   *)
(* and scripts/d2_feature_vector_builder.py) as a state machine.           *)
(*                                                                         *)
(* Numbers.  The scripts compute in IEEE doubles.  The model computes in   *)
(* exact rationals <<n, d>> (d > 0, lowest terms) extended with the three  *)
(* non-finite doubles: NaN = <<0,0>>, +Inf = <<1,0>>, -Inf = <<-1,0>>.     *)
(* Rounding error of finite doubles is not modelled.  Square roots are     *)
(* taken of perfect squares only (the meshes below are chosen that way).   *)
(***************************************************************************)
EXTENDS Integers, Sequences, FiniteSets, TLC

VARIABLES
  task,             \* which entry point this run drives
  pc,               \* position in it
  args, ret,        \* arguments and result of a direct call of a primitive
  fname,            \* the .obj file read
  vertices, triangles,      \* the TriMesh
  bbox_min, increments,     \* the expanded box's corner and the cell size
  tri_idx, cell_idx,  \* attribution loops: triangle index, cells already done
  clip,             \* addTriToVoxel's v_out and plane count when it returns
  subdivided_mesh,  \* cell -> list of <<triangle vertices, clipped area>>
  cx,               \* histogram loops: number of cells already done
  d2_histograms,    \* cell -> histogram
  d2_measurements,  \* the cell's measurements so far, by bin
  sample_pts, sample_tri, alpha, beta, sample_pt,  \* locals of the sampling loops
  calls,            \* TriMesh methods called so far on the mesh
  inexact,          \* a factor still to be applied to the vertices (see TriMesh)
  voxel_grid,       \* Fourier build: the grid, as cell -> area where not 0.0
  freq,             \* Fourier build: the (u, v, w) the loop nest is at
  feature_vec       \* Fourier build: the coefficients so far

vars ==
  <<task, pc, args, ret, fname, vertices, triangles, bbox_min, increments,
    tri_idx, cell_idx, clip, subdivided_mesh, cx, d2_histograms,
    d2_measurements, sample_pts, sample_tri, alpha, beta, sample_pt, calls,
    inexact, voxel_grid, freq, feature_vec>>

callVars ==
  <<args, ret>>

meshVars ==
  <<fname, vertices, triangles>>

gridVars ==
  <<bbox_min, increments, tri_idx, cell_idx, clip, subdivided_mesh>>

sampleVars ==
  <<cx, d2_histograms, d2_measurements, sample_pts, sample_tri, alpha, beta,
    sample_pt>>

apiVars ==
  <<calls, inexact>>

fourierVars ==
  <<voxel_grid, freq, feature_vec>>

(***************************************************************************)
(* Doubles: exact rationals plus NaN and the infinities.                   *)
(***************************************************************************)
Abs(i) ==
  IF i < 0 THEN -i ELSE i

Sgn(i) ==
  IF i < 0 THEN -1 ELSE IF i > 0 THEN 1 ELSE 0

RECURSIVE Gcd(_, _)
Gcd(a, b) ==
  IF b = 0 THEN a ELSE Gcd(b, a % b)

Q(n, d) ==
  IF d = 0 THEN <<Sgn(n), 0>>
  ELSE LET g == Gcd(Abs(n), Abs(d))
       IN  <<Sgn(d) * (n \div g), Abs(d) \div g>>

R(i) ==
  <<i, 1>>

NaN ==
  <<0, 0>>

Zero ==
  <<0, 1>>

IsNaN(a) ==
  a[1] = 0 /\ a[2] = 0

IsFinite(a) ==
  a[2] # 0

Neg(a) ==
  <<-a[1], a[2]>>

Add(a, b) ==
  IF IsFinite(a) /\ IsFinite(b)
  THEN LET g == Gcd(a[2], b[2])
       IN  Q(a[1] * (b[2] \div g) + b[1] * (a[2] \div g), (a[2] \div g) * b[2])
  ELSE IF IsNaN(a) \/ IsNaN(b) THEN NaN
  ELSE IF IsFinite(a) THEN b
  ELSE IF IsFinite(b) THEN a
  ELSE IF a[1] = b[1] THEN a ELSE NaN

Sub(a, b) ==
  Add(a, Neg(b))

Mul(a, b) ==
  IF IsFinite(a) /\ IsFinite(b)
  THEN LET g1 == Gcd(Abs(a[1]), b[2])
           g2 == Gcd(Abs(b[1]), a[2])
       IN  Q((a[1] \div g1) * (b[1] \div g2), (a[2] \div g2) * (b[2] \div g1))
  ELSE IF IsNaN(a) \/ IsNaN(b) \/ a[1] = 0 \/ b[1] = 0 THEN NaN
  ELSE <<Sgn(a[1]) * Sgn(b[1]), 0>>

\* x / y of doubles under numpy: x/0 is +-Inf (NaN for 0/0), no exception.
Div(a, b) ==
  IF IsFinite(a) /\ IsFinite(b)
  THEN IF b[1] = 0 THEN <<Sgn(a[1]), 0>>
       ELSE Mul(a, <<Sgn(b[1]) * b[2], Abs(b[1])>>)
  ELSE IF IsNaN(a) \/ IsNaN(b) THEN NaN
  ELSE IF IsFinite(a) THEN Zero
  ELSE IF IsFinite(b) THEN <<a[1] * (IF b[1] < 0 THEN -1 ELSE 1), 0>>
  ELSE NaN

\* a < b of doubles: False as soon as one side is NaN.
Lt(a, b) ==
  IF IsNaN(a) \/ IsNaN(b) THEN FALSE
  ELSE IF IsFinite(a) /\ IsFinite(b)
  THEN LET g == Gcd(a[2], b[2])
       IN  a[1] * (b[2] \div g) < b[1] * (a[2] \div g)
  ELSE IF IsFinite(a) THEN b[1] > 0
  ELSE IF IsFinite(b) THEN a[1] < 0
  ELSE a[1] < b[1]

Ge(a, b) ==
  IF IsNaN(a) \/ IsNaN(b) THEN FALSE ELSE ~Lt(a, b)

IsZero(a) ==
  IsFinite(a) /\ a[1] = 0

AbsQ(a) ==
  <<Abs(a[1]), a[2]>>

RECURSIVE NewtonSqrt(_, _)
NewtonSqrt(n, x) ==
  LET y == (x + n \div x) \div 2
  IN  IF y >= x THEN x ELSE NewtonSqrt(n, y)

\* floor of the square root of a natural number
ISqrt(n) ==
  IF n < 2 THEN n ELSE NewtonSqrt(n, n)

IsSquare(a) ==
  IsFinite(a) /\ a[1] >= 0 /\ ISqrt(a[1]) * ISqrt(a[1]) = a[1]
              /\ ISqrt(a[2]) * ISqrt(a[2]) = a[2]

\* math.sqrt: exact on the perfect squares the model feeds it.
Sqrt(a) ==
  IF ~IsFinite(a) THEN (IF a[1] > 0 THEN a ELSE NaN)
  ELSE IF a[1] < 0 THEN NaN
  ELSE Q(ISqrt(a[1]), ISqrt(a[2]))

(***************************************************************************)
(* numpy 3-vectors                                                         *)
(***************************************************************************)
V(x, y, z) ==
  <<R(x), R(y), R(z)>>

VAdd(a, b) ==
  <<Add(a[1], b[1]), Add(a[2], b[2]), Add(a[3], b[3])>>

VSub(a, b) ==
  <<Sub(a[1], b[1]), Sub(a[2], b[2]), Sub(a[3], b[3])>>

VScale(k, a) ==
  <<Mul(k, a[1]), Mul(k, a[2]), Mul(k, a[3])>>

VDiv(a, k) ==
  <<Div(a[1], k), Div(a[2], k), Div(a[3], k)>>

Dot(a, b) ==
  Add(Add(Mul(a[1], b[1]), Mul(a[2], b[2])), Mul(a[3], b[3]))

Cross(a, b) ==
  <<Sub(Mul(a[2], b[3]), Mul(a[3], b[2])),
    Sub(Mul(a[3], b[1]), Mul(a[1], b[3])),
    Sub(Mul(a[1], b[2]), Mul(a[2], b[1]))>>

VZero ==
  <<Zero, Zero, Zero>>

MaxAbs(v) ==
  LET a == AbsQ(v[1])
      b == AbsQ(v[2])
      c == AbsQ(v[3])
      m == IF Lt(a, b) THEN b ELSE a
  IN  IF Lt(m, c) THEN c ELSE m

\* sqrt(v0^2 + v1^2 + v2^2), evaluated as m * sqrt(sum((vi/m)^2)) with
\* m = max |vi| so that the squares stay small; the same real number.
vecnorm(v) ==
  IF \E i \in 1..3 : ~IsFinite(v[i])
  THEN (IF \E i \in 1..3 : IsNaN(v[i]) THEN NaN ELSE <<1, 0>>)
  ELSE LET m == MaxAbs(v)
       IN  IF IsZero(m) THEN Zero
           ELSE LET w == VDiv(v, m)
                IN  Mul(m, Sqrt(Dot(w, w)))

(***************************************************************************)
(* Geometry primitives                                                     *)
(***************************************************************************)
RECURSIVE dedupFrom(_, _, _)
dedupFrom(pts, i, deduped) ==
  IF i > Len(pts) THEN deduped
  ELSE IF \E k \in 1..Len(deduped) : deduped[k] = pts[i]
       THEN dedupFrom(pts, i + 1, deduped)
       ELSE dedupFrom(pts, i + 1, Append(deduped, pts[i]))

\* None for the empty list, as the bare "return" of the code
dedupPoints(pts) ==
  IF Len(pts) = 0 THEN "None" ELSE dedupFrom(pts, 2, <<pts[1]>>)

\* the scan for a non-degenerate normal: returns the normal it ends with
RECURSIVE scanNormal(_, _, _)
scanNormal(pts, normal, start_idx) ==
  IF normal = VZero /\ start_idx < Len(pts) - 2
  THEN scanNormal(pts,
                  Cross(VSub(pts[start_idx + 2], pts[start_idx + 1]),
                        VSub(pts[start_idx + 3], pts[start_idx + 1])),
                  start_idx + 1)
  ELSE normal

RECURSIVE areaVec(_, _, _)
areaVec(pts, i, acc) ==
  IF i > Len(pts) THEN acc
  ELSE areaVec(pts, i + 1,
               VAdd(acc, Cross(pts[i], pts[IF i = Len(pts) THEN 1 ELSE i + 1])))

\* polygonArea without the return on a zero normal (for C8)
polygonAreaUnchecked(pts) ==
  IF Len(pts) < 3 THEN Zero
  ELSE IF Len(pts) = 3
  THEN Mul(Q(1, 2), vecnorm(Cross(VSub(pts[2], pts[1]), VSub(pts[3], pts[1]))))
  ELSE AbsQ(Mul(Dot(areaVec(pts, 1, VZero),
                    VDiv(scanNormal(pts, VZero, 0),
                         vecnorm(scanNormal(pts, VZero, 0)))), Q(1, 2)))

polygonArea(pts) ==
  IF Len(pts) < 3 THEN Zero
  ELSE IF Len(pts) = 3
  THEN Mul(Q(1, 2), vecnorm(Cross(VSub(pts[2], pts[1]), VSub(pts[3], pts[1]))))
  ELSE LET normal == scanNormal(pts, VZero, 0)
       IN  IF IsZero(vecnorm(normal)) THEN Zero
           ELSE AbsQ(Mul(Dot(areaVec(pts, 1, VZero),
                             VDiv(normal, vecnorm(normal))), Q(1, 2)))

\* clipLine with 0 counted as outside in the accept test (for C1)
clipLineStrict(a, b, p, n) ==
  LET clip_a == Dot(VSub(a, p), n)
      clip_b == Dot(VSub(b, p), n)
  IN  IF Lt(Zero, clip_a) /\ Lt(Zero, clip_b) THEN <<0, <<a, b>>>>
      ELSE IF Lt(clip_a, Zero) /\ Lt(clip_b, Zero) THEN <<1, <<>>>>
      ELSE LET clipped == VAdd(VScale(Div(clip_a, Sub(clip_a, clip_b)),
                                      VSub(b, a)), a)
           IN  IF Lt(clip_a, Zero) THEN <<2, <<clipped, b>>>>
               ELSE <<3, <<a, clipped>>>>

clipLine(a, b, p, n) ==
  LET clip_a == Dot(VSub(a, p), n)
      clip_b == Dot(VSub(b, p), n)
  IN  IF Ge(clip_a, Zero) /\ Ge(clip_b, Zero) THEN <<0, <<a, b>>>>
      ELSE IF Lt(clip_a, Zero) /\ Lt(clip_b, Zero) THEN <<1, <<>>>>
      ELSE LET clipped == VAdd(VScale(Div(clip_a, Sub(clip_a, clip_b)),
                                      VSub(b, a)), a)
           IN  IF Lt(clip_a, Zero) THEN <<2, <<clipped, b>>>>
               ELSE <<3, <<a, clipped>>>>

(***************************************************************************)
(* TriMesh and the .obj reader.  A file is a sequence of lines, a line the *)
(* sequence of its words: <<"v", x, y, z>> with the words already read as  *)
(* doubles, <<"f", r1, r2, ...>> with each reference r the sequence of its *)
(* '/'-separated integer fields.  Triangles hold 0-based indices.          *)
(***************************************************************************)
RECURSIVE importLines(_, _, _, _)
importLines(file, i, vs, ts) ==
  IF i > Len(file) THEN [vertices |-> vs, triangles |-> ts]
  ELSE LET words == file[i]
       IN  IF Len(words) = 0 THEN importLines(file, i + 1, vs, ts)
           ELSE IF words[1] = "v"
           THEN importLines(file, i + 1, Append(vs, Tail(words)), ts)
           ELSE IF words[1] = "f"
           THEN importLines(file, i + 1, vs,
                  Append(ts, [k \in 1..(Len(words) - 1) |-> words[k + 1][1] - 1]))
           ELSE importLines(file, i + 1, vs, ts)

importOBJFile(file) ==
  importLines(file, 1, <<>>, <<>>)

\* Python's list indexing: a negative index counts from the end
IndexOk(vs, i) ==
  -Len(vs) <= i /\ i < Len(vs)

PyIndex(vs, i) ==
  vs[IF i < 0 THEN Len(vs) + i + 1 ELSE i + 1]

TriOk(vs, tri) ==
  \A k \in 1..Len(tri) : IndexOk(vs, tri[k])

getTriVertices(vs, tri) ==
  [k \in 1..Len(tri) |-> PyIndex(vs, tri[k])]

RECURSIVE surfaceAreaFrom(_, _, _, _)
surfaceAreaFrom(vs, ts, i, surf_area) ==
  IF i > Len(ts) THEN surf_area
  ELSE surfaceAreaFrom(vs, ts, i + 1,
                       Add(surf_area, polygonArea(getTriVertices(vs, ts[i]))))

surfaceArea(vs, ts) ==
  surfaceAreaFrom(vs, ts, 1, Zero)

MinQ(a, b) ==
  IF Lt(b, a) THEN b ELSE a

MaxQ(a, b) ==
  IF Lt(a, b) THEN b ELSE a

RECURSIVE boundingBoxFrom(_, _, _, _)
boundingBoxFrom(vs, i, minpt, maxpt) ==
  IF i > Len(vs) THEN <<minpt, maxpt>>
  ELSE boundingBoxFrom(vs, i + 1,
                       [k \in 1..3 |-> MinQ(minpt[k], vs[i][k])],
                       [k \in 1..3 |-> MaxQ(maxpt[k], vs[i][k])])

\* defined for a mesh with a vertex; (None, None) otherwise
boundingBox(vs) ==
  boundingBoxFrom(vs, 1, vs[1], vs[1])

(***************************************************************************)
(* The voxel grid of a descriptor build                                    *)
(***************************************************************************)
N ==
  4

BoxExpansion ==
  Q(1, 1000)

Cells ==
  (0..(N - 1)) \X (0..(N - 1)) \X (0..(N - 1))

\* bbox_min and increments after the box is expanded
expandedMin(bbox) ==
  VSub(bbox[1], VScale(BoxExpansion, VSub(bbox[2], bbox[1])))

expandedMax(bbox) ==
  VAdd(bbox[2], VScale(BoxExpansion, VSub(bbox[2], bbox[1])))

gridIncrements(bbox) ==
  VDiv(VSub(expandedMax(bbox), expandedMin(bbox)), R(N))

\* int(x) of a double: truncation toward zero; no value for NaN and +-Inf
IntOk(a) ==
  IsFinite(a)

int(a) ==
  Sgn(a[1]) * (Abs(a[1]) \div a[2])

findVoxelOk(pt, bmin, inc) ==
  \A k \in 1..3 : IntOk(Div(Sub(pt[k], bmin[k]), inc[k]))

findVoxelCoords(pt, bmin, inc) ==
  [k \in 1..3 |-> int(Div(Sub(pt[k], bmin[k]), inc[k]))]

\* the normals with those of the back and the front plane swapped (for C2)
plane_normals_swapped ==
  <<V(1, 0, 0), V(-1, 0, 0), V(0, 1, 0), V(0, -1, 0), V(0, 0, -1), V(0, 0, 1)>>

plane_normals ==
  <<V(1, 0, 0), V(-1, 0, 0), V(0, 1, 0), V(0, -1, 0), V(0, 0, 1), V(0, 0, -1)>>

plane_pts(bmin, inc, c) ==
  <<<<Add(bmin[1], Mul(inc[1], R(c[1]))), Zero, Zero>>,
    <<Add(bmin[1], Mul(inc[1], R(c[1] + 1))), Zero, Zero>>,
    <<Zero, Add(bmin[2], Mul(inc[2], R(c[2]))), Zero>>,
    <<Zero, Add(bmin[2], Mul(inc[2], R(c[2] + 1))), Zero>>,
    <<Zero, Zero, Add(bmin[3], Mul(inc[3], R(c[3])))>>,
    <<Zero, Zero, Add(bmin[3], Mul(inc[3], R(c[3] + 1)))>>>>

\* the appends of one edge's clipLine result r = (status, clipped_line)
appendClipped(v_out, r) ==
  IF r[1] = 0 THEN Append(v_out, r[2][2])
  ELSE IF r[1] = 1 THEN v_out
  ELSE IF r[1] = 2 THEN Append(Append(v_out, r[2][1]), r[2][2])
  ELSE Append(v_out, r[2][2])

\* the pass with v_out starting from the first vertex instead of empty
\* (for C13)
RECURSIVE clipEdgesSeeded(_, _, _, _, _)
clipEdgesSeeded(v_in, i, p, n, v_out) ==
  IF i > Len(v_in) THEN v_out
  ELSE clipEdgesSeeded(v_in, i + 1, p, n,
         appendClipped(IF i = 1 THEN <<v_in[1]>> ELSE v_out,
                       clipLine(v_in[i], v_in[(i % Len(v_in)) + 1], p, n)))

\* one pass around the polygon's edges against one half-space
RECURSIVE clipEdges(_, _, _, _, _)
clipEdges(v_in, i, p, n, v_out) ==
  IF i > Len(v_in) THEN v_out
  ELSE clipEdges(v_in, i + 1, p, n,
         appendClipped(v_out,
                       clipLine(v_in[i], v_in[(i % Len(v_in)) + 1], p, n)))

\* the loop over the six planes; sizes lists len(v_out) after each plane
\* taken (after dedupPoints, when it is reached)
RECURSIVE clipPlanes(_, _, _, _)
RECURSIVE afterPlane(_, _, _, _)
RECURSIVE afterDedup(_, _, _, _)
clipPlanes(v_in, k, pts, sizes) ==
  IF k > 6 THEN [v_out |-> v_in, sizes |-> sizes, stopped |-> FALSE]
  ELSE afterPlane(clipEdges(v_in, 1, pts[k], plane_normals[k], <<>>),
                  k, pts, sizes)

afterPlane(v_out, k, pts, sizes) ==
  IF Len(v_out) = 0
  THEN [v_out |-> v_out, sizes |-> Append(sizes, 0), stopped |-> TRUE]
  ELSE afterDedup(dedupPoints(v_out), k, pts, sizes)

afterDedup(v_out, k, pts, sizes) ==
  clipPlanes(v_out, k + 1, pts, Append(sizes, Len(v_out)))

\* the clipping part of addTriToVoxel for triangle vs and cell c
clipTri(vs, bmin, inc, c) ==
  clipPlanes(vs, 1, plane_pts(bmin, inc, c), <<>>)

minCoords(c, lo) ==
  [k \in 1..3 |-> IF c[k] < lo[k] THEN c[k] ELSE lo[k]]

\* the running maximum taken as a minimum (for C3)
maxCoordsAsMin(c, hi) ==
  [k \in 1..3 |-> IF c[k] < hi[k] THEN c[k] ELSE hi[k]]

maxCoords(c, hi) ==
  [k \in 1..3 |-> IF c[k] > hi[k] THEN c[k] ELSE hi[k]]

\* inclusive voxel-index range of a triangle: <<min_voxel_coords, max_voxel_coords>>
RECURSIVE voxelRangeFrom(_, _, _, _, _, _)
voxelRangeFrom(vs, i, bmin, inc, lo, hi) ==
  IF i > Len(vs) THEN <<lo, hi>>
  ELSE voxelRangeFrom(vs, i + 1, bmin, inc,
                      minCoords(findVoxelCoords(vs[i], bmin, inc), lo),
                      maxCoords(findVoxelCoords(vs[i], bmin, inc), hi))

voxelRange(vs, bmin, inc) ==
  voxelRangeFrom(vs, 1, bmin, inc, <<N, N, N>>, <<0, 0, 0>>)

InRange(c, rng) ==
  \A k \in 1..3 : rng[1][k] <= c[k] /\ c[k] <= rng[2][k]

\* position of cell c in the x, y, z loop nest over the range
cellRank(c, rng) ==
  ((c[1] - rng[1][1]) * (rng[2][2] - rng[1][2] + 1) + (c[2] - rng[1][2]))
    * (rng[2][3] - rng[1][3] + 1) + (c[3] - rng[1][3])

rangeSize(rng) ==
  IF \E k \in 1..3 : rng[2][k] < rng[1][k] THEN 0
  ELSE (rng[2][1] - rng[1][1] + 1) * (rng[2][2] - rng[1][2] + 1)
         * (rng[2][3] - rng[1][3] + 1)

\* the k-th cell (k from 0) the loop nest visits
cellAt(k, rng) ==
  LET nz == rng[2][3] - rng[1][3] + 1
      ny == rng[2][2] - rng[1][2] + 1
  IN  <<rng[1][1] + (k \div (ny * nz)),
        rng[1][2] + ((k \div nz) % ny),
        rng[1][3] + (k % nz)>>

(***************************************************************************)
(* The .obj files the builds are run on                                    *)
(***************************************************************************)
vline(x, y, z) ==
  <<"v", x, y, z>>

fline(a, b, c) ==
  <<"f", <<a>>, <<b>>, <<c>>>>

\* a right triangle across the whole box, in the plane z = 0, and a small
\* one inside the last cell
FileRightTri ==
  <<<<"#", "right">>, vline(R(0), R(0), R(0)), vline(R(2), R(0), R(0)),
    vline(R(0), R(2), R(0)), <<>>, vline(R(2), R(2), R(2)),
    vline(Q(7, 4), R(2), R(2)), vline(R(2), Q(7, 4), R(2)),
    fline(1, 2, 3), fline(4, 5, 6)>>

\* a tilted triangle (normal along (1, 2, 2)), references with texture fields
FileTilted ==
  <<vline(R(2), R(0), R(0)), vline(R(0), R(1), R(0)), vline(R(0), R(0), R(1)),
    <<"f", <<1, 1>>, <<2, 2>>, <<3, 3>>>>>>

\* a small triangle inside the first cell
FileSmall ==
  <<vline(R(0), R(0), R(0)), vline(R(2), R(2), R(2)),
    vline(Q(1, 10), Q(1, 10), Q(1, 10)), vline(Q(1, 4), Q(1, 10), Q(1, 10)),
    vline(Q(1, 10), Q(1, 4), Q(1, 10)), fline(3, 4, 5)>>

\* a triangle that names one vertex twice
FileDupVertex ==
  <<vline(R(0), R(0), R(0)), vline(R(2), R(2), R(2)),
    vline(Q(1, 10), Q(1, 10), Q(1, 10)), vline(Q(1, 4), Q(1, 10), Q(1, 10)),
    fline(3, 3, 4)>>

\* three collinear vertices along the box diagonal
FileCollinear ==
  <<vline(R(0), R(0), R(0)), vline(R(1), R(1), R(1)), vline(R(2), R(2), R(2)),
    fline(1, 2, 3)>>

\* a unit square of two triangles in the plane z = 1, inside the box
FileSquare ==
  <<vline(R(0), R(0), R(0)), vline(R(1), R(0), R(1)), vline(R(2), R(0), R(1)),
    vline(R(2), R(1), R(1)), vline(R(1), R(1), R(1)), vline(R(2), R(4), R(2)),
    fline(2, 3, 4), fline(2, 4, 5)>>

FileNoFaces ==
  <<vline(R(0), R(0), R(0)), vline(R(1), R(2), R(3))>>

FileEmpty ==
  <<>>

\* an "f" line without references
FileBareFace ==
  <<vline(R(0), R(0), R(0)), vline(R(1), R(2), R(3)), <<"f">>>>

\* every vertex in the plane z = 0
FileFlat ==
  <<vline(R(0), R(0), R(0)), vline(R(1), R(0), R(0)), vline(R(0), R(1), R(0)),
    fline(1, 2, 3)>>

\* a triangle in the plane z = 2 whose centroid is (2, 2, 2)
FileCentred ==
  <<vline(R(0), R(0), R(2)), vline(R(6), R(0), R(2)), vline(R(0), R(6), R(2)),
    fline(1, 2, 3)>>

\* a small triangle across the plane between two cells, and a triangle
\* without area in the last cell
FileTwoCells ==
  <<vline(R(0), R(0), R(0)), vline(R(2), R(2), R(2)),
    vline(Q(9, 20), Q(1, 10), Q(1, 10)), vline(Q(11, 20), Q(1, 10), Q(1, 10)),
    vline(Q(9, 20), Q(1, 5), Q(1, 10)), vline(Q(19, 10), Q(19, 10), Q(19, 10)),
    fline(3, 4, 5), fline(2, 2, 6)>>

Files ==
  {FileRightTri, FileTilted, FileSmall, FileDupVertex, FileCollinear,
   FileSquare, FileNoFaces, FileEmpty, FileBareFace, FileFlat, FileCentred,
   FileTwoCells}

(***************************************************************************)
(* D2 buildFeatureVector: import, grid, attribution                        *)
(***************************************************************************)
EmptyGrid ==
  [c \in Cells |-> <<>>]

D2Import ==
  /\ task = "d2"
  /\ pc = "import"
  /\ vertices' = importOBJFile(fname).vertices
  /\ triangles' = importOBJFile(fname).triangles
  /\ pc' = "bbox"
  /\ UNCHANGED <<task, apiVars, fourierVars, callVars, fname, gridVars, sampleVars>>

\* boundingBox, the expansion and the increments
D2Grid ==
  /\ task = "d2"
  /\ pc = "bbox"
  /\ Len(vertices) > 0
  /\ bbox_min' = expandedMin(boundingBox(vertices))
  /\ increments' = gridIncrements(boundingBox(vertices))
  /\ subdivided_mesh' = EmptyGrid
  /\ tri_idx' = 0
  /\ cell_idx' = 0
  /\ pc' = "attribute"
  /\ UNCHANGED <<task, apiVars, fourierVars, callVars, meshVars, clip, sampleVars>>

\* no vertex: boundingBox returns (None, None) and None - None raises
D2GridFail ==
  /\ task = "d2"
  /\ pc = "bbox"
  /\ Len(vertices) = 0
  /\ pc' = "TypeError"
  /\ UNCHANGED <<task, apiVars, fourierVars, callVars, meshVars, gridVars, sampleVars>>

curTri ==
  getTriVertices(vertices, triangles[tri_idx + 1])

TriStartOk ==
  /\ TriOk(vertices, triangles[tri_idx + 1])
  /\ \A i \in 1..Len(triangles[tri_idx + 1]) :
       findVoxelOk(PyIndex(vertices, triangles[tri_idx + 1][i]),
                   bbox_min, increments)

\* addTriToVoxel(vs, x, y, z) for the cell c = (x, y, z), r its clip result
attribute(vs, c, r) ==
  /\ clip' = r
  /\ subdivided_mesh' =
       [subdivided_mesh EXCEPT ![c] = Append(@, <<vs, polygonArea(r.v_out)>>)]

advance(size) ==
  IF cell_idx + 1 < size
  THEN cell_idx' = cell_idx + 1 /\ tri_idx' = tri_idx
  ELSE cell_idx' = 0 /\ tri_idx' = tri_idx + 1

attributeAt(vs, c) ==
  /\ c \in Cells
  /\ attribute(vs, c, clipTri(vs, bbox_min, increments, c))

attributeIn(vs, rng) ==
  /\ cell_idx < rangeSize(rng)
  /\ attributeAt(vs, cellAt(cell_idx, rng))
  /\ advance(rangeSize(rng))

attributeTri(vs) ==
  attributeIn(vs, voxelRange(vs, bbox_min, increments))

\* one call addTriToVoxel(vs, x, y, z) of the loop nest, and the loop's advance
addTriToVoxel ==
  /\ task = "d2"
  /\ pc = "attribute"
  /\ tri_idx < Len(triangles)
  /\ TriStartOk
  /\ attributeTri(curTri)
  /\ UNCHANGED <<task, apiVars, fourierVars, pc, callVars, meshVars, bbox_min, increments, sampleVars>>

emptyRange(vs) ==
  rangeSize(voxelRange(vs, bbox_min, increments)) = 0

\* a triangle without vertices has an empty index range
AttributeSkip ==
  /\ task = "d2"
  /\ pc = "attribute"
  /\ tri_idx < Len(triangles)
  /\ TriStartOk
  /\ emptyRange(curTri)
  /\ tri_idx' = tri_idx + 1
  /\ UNCHANGED <<task, apiVars, fourierVars, pc, callVars, meshVars, bbox_min, increments, cell_idx, clip,
                 subdivided_mesh, sampleVars>>

outsideGrid(rng) ==
  /\ cell_idx < rangeSize(rng)
  /\ cellAt(cell_idx, rng) \notin Cells

\* getTriVertices indexes past the vertex list, int() meets NaN or Inf, or
\* the cell index is no index of the grid
AttributeFail ==
  /\ task = "d2"
  /\ pc = "attribute"
  /\ tri_idx < Len(triangles)
  /\ IF ~TriOk(vertices, triangles[tri_idx + 1]) THEN pc' = "IndexError"
     ELSE IF ~TriStartOk THEN pc' = "ValueError"
     ELSE /\ outsideGrid(voxelRange(curTri, bbox_min, increments))
          /\ pc' = "IndexError"
  /\ UNCHANGED <<task, apiVars, fourierVars, callVars, meshVars, gridVars, sampleVars>>

AttributeDone ==
  /\ task = "d2"
  /\ pc = "attribute"
  /\ tri_idx = Len(triangles)
  /\ pc' = "cell"
  /\ cx' = 0
  /\ d2_histograms' = EmptyGrid
  /\ UNCHANGED <<task, apiVars, fourierVars, callVars, meshVars, gridVars, d2_measurements, sample_pts,
                 sample_tri, alpha, beta, sample_pt>>

(***************************************************************************)
(* D2 buildFeatureVector: the histogram of every cell                      *)
(***************************************************************************)
BINS ==
  10

NUM_MEASUREMENTS ==
  30

\* the values random.random() is taken to return
Draws ==
  {Zero, Q(3, 4)}

\* an all-zero histogram one bin short (for C5)
ZeroHistShort ==
  [i \in 1..(BINS - 1) |-> 0]

ZeroHist ==
  [i \in 1..BINS |-> 0]

\* the cell the loop nest over x, y, z reaches after i cells
cellOf(i) ==
  <<i \div (N * N), (i \div N) % N, i % N>>

RECURSIVE listAreaFrom(_, _, _)
listAreaFrom(subdivision, i, total_area) ==
  IF i > Len(subdivision) THEN total_area
  ELSE listAreaFrom(subdivision, i + 1, Add(total_area, subdivision[i][2]))

\* total_area of a cell's list of (tri, clipped_area)
totalArea(subdivision) ==
  listAreaFrom(subdivision, 1, Zero)

inSubdivBBox(p, bmin, inc, c) ==
  \A i \in 1..3 :
    ~(\/ Lt(p[i], Add(bmin[i], Mul(inc[i], R(c[i]))))
      \/ Lt(Add(bmin[i], Mul(inc[i], R(c[i] + 1))), p[i]))

randomPointOnTri(tr, a, b) ==
  VAdd(VAdd(tr[1], VScale(a, VSub(tr[2], tr[1]))), VScale(b, VSub(tr[3], tr[1])))

\* np.histogram(bins=BINS, range=(0, 1.5)) of one distance, given its
\* square: the 1-based bin, 0 when the distance is outside the range.  The
\* last bin is closed on the right.
histBin(dsq) ==
  IF Lt(Q(9, 4), dsq) THEN 0
  ELSE IF dsq = Q(9, 4) THEN BINS
  ELSE CHOOSE b \in 1..BINS :
         /\ ~Lt(dsq, Q(9 * (b - 1) * (b - 1), 4 * BINS * BINS))
         /\ Lt(dsq, Q(9 * b * b, 4 * BINS * BINS))

addMeasurement(hist, dsq) ==
  IF histBin(dsq) = 0 THEN hist
  ELSE [hist EXCEPT ![histBin(dsq)] = @ + 1]

NoLocals ==
  /\ sample_pts' = <<>>
  /\ sample_tri' = <<>>
  /\ alpha' = Zero
  /\ beta' = Zero
  /\ sample_pt' = VZero

\* total_area == 0: the all-zero histogram, and on to the next cell
CellZero ==
  /\ task = "d2"
  /\ pc = "cell"
  /\ cx < N * N * N
  /\ totalArea(subdivided_mesh[cellOf(cx)]) = Zero
  /\ d2_histograms' = [d2_histograms EXCEPT ![cellOf(cx)] = ZeroHist]
  /\ cx' = cx + 1
  /\ UNCHANGED <<task, apiVars, fourierVars, pc, callVars, meshVars, gridVars, d2_measurements,
                 sample_pts, sample_tri, alpha, beta, sample_pt>>

CellBegin ==
  /\ task = "d2"
  /\ pc = "cell"
  /\ cx < N * N * N
  /\ totalArea(subdivided_mesh[cellOf(cx)]) # Zero
  /\ d2_measurements' = [n |-> 0, hist |-> ZeroHist]
  /\ pc' = "pick"
  /\ UNCHANGED <<task, apiVars, fourierVars, callVars, meshVars, gridVars, cx, d2_histograms,
                 sample_pts, sample_tri, alpha, beta, sample_pt>>

\* np.random.choice(range(len(tris)), p=probs): an index of positive
\* probability clipped_area / total_area
PickTri ==
  /\ task = "d2"
  /\ pc = "pick"
  /\ \E idx \in 1..Len(subdivided_mesh[cellOf(cx)]) :
       /\ Lt(Zero, Div(subdivided_mesh[cellOf(cx)][idx][2],
                       totalArea(subdivided_mesh[cellOf(cx)])))
       /\ sample_tri' = subdivided_mesh[cellOf(cx)][idx][1]
  /\ pc' = "draw"
  /\ UNCHANGED <<task, apiVars, fourierVars, callVars, meshVars, gridVars, cx, d2_histograms,
                 d2_measurements, sample_pts, alpha, beta, sample_pt>>

\* randomPointOnTri: alpha = random.random(); beta = random.random()
DrawBary ==
  /\ task = "d2"
  /\ pc = "draw"
  /\ alpha' \in Draws
  /\ beta' \in Draws
  /\ pc' = "bary"
  /\ UNCHANGED <<task, apiVars, fourierVars, callVars, meshVars, gridVars, cx, d2_histograms,
                 d2_measurements, sample_pts, sample_tri, sample_pt>>

\* while alpha + beta > 1.0: draw both again
RejectBary ==
  /\ task = "d2"
  /\ pc = "bary"
  /\ Lt(R(1), Add(alpha, beta))
  /\ pc' = "draw"
  /\ UNCHANGED <<task, apiVars, fourierVars, callVars, meshVars, gridVars, cx, d2_histograms,
                 d2_measurements, sample_pts, sample_tri, alpha, beta, sample_pt>>

AcceptBary ==
  /\ task = "d2"
  /\ pc = "bary"
  /\ ~Lt(R(1), Add(alpha, beta))
  /\ sample_pt' = randomPointOnTri(sample_tri, alpha, beta)
  /\ pc' = "contain"
  /\ UNCHANGED <<task, apiVars, fourierVars, callVars, meshVars, gridVars, cx, d2_histograms,
                 d2_measurements, sample_pts, sample_tri, alpha, beta>>

\* while not inSubdivBBox(pt): pt = randomPointOnTri(tri)
RejectPoint ==
  /\ task = "d2"
  /\ pc = "contain"
  /\ ~inSubdivBBox(sample_pt, bbox_min, increments, cellOf(cx))
  /\ pc' = "draw"
  /\ UNCHANGED <<task, apiVars, fourierVars, callVars, meshVars, gridVars, cx, d2_histograms,
                 d2_measurements, sample_pts, sample_tri, alpha, beta, sample_pt>>

\* pts.append(pt); the second point of a pair ends the measurement, the
\* last measurement ends the cell with np.histogram.  Locals that are dead
\* from here on are reset.
AcceptPoint ==
  /\ task = "d2"
  /\ pc = "contain"
  /\ inSubdivBBox(sample_pt, bbox_min, increments, cellOf(cx))
  /\ IF Len(sample_pts) = 0
     THEN /\ sample_pts' = <<sample_pt>>
          /\ pc' = "pick"
          /\ sample_tri' = <<>>
          /\ alpha' = Zero
          /\ beta' = Zero
          /\ sample_pt' = VZero
          /\ UNCHANGED <<cx, d2_histograms, d2_measurements>>
     ELSE LET d == VSub(sample_pt, sample_pts[1])
              m == [n |-> d2_measurements.n + 1,
                    hist |-> addMeasurement(d2_measurements.hist, Dot(d, d))]
          IN  /\ NoLocals
              /\ IF m.n < NUM_MEASUREMENTS
                 THEN /\ d2_measurements' = m
                      /\ pc' = "pick"
                      /\ UNCHANGED <<cx, d2_histograms>>
                 ELSE /\ d2_measurements' = <<>>
                      /\ d2_histograms' =
                           [d2_histograms EXCEPT ![cellOf(cx)] = m.hist]
                      /\ cx' = cx + 1
                      /\ pc' = "cell"
  /\ UNCHANGED <<task, apiVars, fourierVars, callVars, meshVars, gridVars>>

\* return d2_histograms
D2Return ==
  /\ task = "d2"
  /\ pc = "cell"
  /\ cx = N * N * N
  /\ ret' = d2_histograms
  /\ pc' = "done"
  /\ UNCHANGED <<task, apiVars, fourierVars, args, meshVars, gridVars, sampleVars>>

(***************************************************************************)
(* Direct calls of the primitives                                          *)
(***************************************************************************)
ClipPoints ==
  {V(0, 0, 0), V(1, 0, 0), V(2, 1, 0), V(0, 2, 1), V(-1, 1, 2), V(1, 1, 1)}

ClipPlanePoints ==
  {V(0, 0, 0), V(1, 0, 0), <<Q(1, 2), R(1), R(0)>>}

ClipNormals ==
  {V(1, 0, 0), V(-1, 0, 0), V(0, 1, 0), V(0, 0, -1), V(1, 1, 0), V(1, -2, 2)}

CallClipLine ==
  /\ task = "clipLine"
  /\ pc = "idle"
  /\ \E a \in ClipPoints, b \in ClipPoints, p \in ClipPlanePoints,
        n \in ClipNormals :
       /\ args' = <<a, b, p, n>>
       /\ ret' = clipLine(a, b, p, n)
  /\ pc' = "returned"
  /\ UNCHANGED <<task, apiVars, fourierVars, meshVars, gridVars, sampleVars>>

\* polygonArea(pts) called on its own
PolyPoints ==
  {V(0, 0, 0), V(1, 1, 0), V(2, 2, 0), V(3, 3, 0), V(1, 0, 0), V(0, 2, 0)}

MaxPolyLen ==
  4

CallPolygonArea ==
  /\ task = "polygonArea"
  /\ pc = "idle"
  /\ \E n \in 0..MaxPolyLen : \E pts \in [1..n -> PolyPoints] :
       /\ args' = <<pts>>
       /\ ret' = polygonArea(pts)
  /\ pc' = "returned"
  /\ UNCHANGED <<task, apiVars, fourierVars, meshVars, gridVars, sampleVars>>

\* importOBJFile(fname) called on its own, on a file of nv vertex lines and
\* one face line; the references are 1-based, 1..nv the ones of a vertex
FaceRefs ==
  {-1, 0, 1, 3, 4}

MaxRefs ==
  4

faceFile(nv, refs) ==
  [i \in 1..nv |-> vline(R(i), R(0), R(i * i))]
    \o <<<<"f">> \o [k \in 1..Len(refs) |-> <<refs[k]>>]>>

CallImportOBJFile ==
  /\ task = "importOBJFile"
  /\ pc = "idle"
  /\ \E nv \in {0, 3} : \E n \in 0..MaxRefs : \E refs \in [1..n -> FaceRefs] :
       /\ args' = <<faceFile(nv, refs)>>
       /\ ret' = importOBJFile(faceFile(nv, refs))
  /\ pc' = "returned"
  /\ UNCHANGED <<task, apiVars, fourierVars, meshVars, gridVars, sampleVars>>

(***************************************************************************)
(* TriMesh: the four canonicalization steps, called on an imported mesh.   *)
(* A rotation about y by a multiple of 12 degrees other than 0, and a      *)
(* scale factor that is no rational number, have no exact value here:      *)
(* the step then leaves the rational coordinates in place and records the  *)
(* factor still to be applied in "inexact"; such a mesh is followed no     *)
(* further.                                                                *)
(***************************************************************************)
ANGLE_HISTOGRAM_SIZE ==
  30

\* np.sign of a double
SignQ(a) ==
  IF IsNaN(a) THEN NaN ELSE R(Sgn(a[1]))

\* [v1, v2, v3] = self.getTriVertices(t): what the first triangle that does
\* not unpack raises, "" if all of them unpack
RECURSIVE unpackError(_, _, _)
unpackError(vs, ts, i) ==
  IF i > Len(ts) THEN ""
  ELSE IF ~TriOk(vs, ts[i]) THEN "IndexError"
  ELSE IF Len(ts[i]) # 3 THEN "ValueError"
  ELSE unpackError(vs, ts, i + 1)

\* (v1 + v2 + v3) / 3
triCentroid(tv) ==
  VDiv(VAdd(VAdd(tv[1], tv[2]), tv[3]), R(3))

\* the centroids summed without their areas (for C10)
RECURSIVE centroidSumFrom(_, _, _, _)
centroidSumFrom(vs, ts, i, center_gravity) ==
  IF i > Len(ts) THEN center_gravity
  ELSE centroidSumFrom(vs, ts, i + 1,
         VAdd(center_gravity, triCentroid(getTriVertices(vs, ts[i]))))

RECURSIVE centerGravityFrom(_, _, _, _)
centerGravityFrom(vs, ts, i, center_gravity) ==
  IF i > Len(ts) THEN center_gravity
  ELSE centerGravityFrom(vs, ts, i + 1,
         VAdd(center_gravity,
              VScale(polygonArea(getTriVertices(vs, ts[i])),
                     triCentroid(getTriVertices(vs, ts[i])))))

center_gravity(vs, ts) ==
  VDiv(centerGravityFrom(vs, ts, 1, VZero), surfaceArea(vs, ts))

\* the loop over the vertices one short (for C9)
translatedButLast(vs, cg) ==
  [i \in 1..(Len(vs) - 1) |-> VSub(vs[i], cg)]

translated(vs, cg) ==
  [i \in 1..Len(vs) |-> VSub(vs[i], cg)]

\* the vertices applyTranslationInvariant leaves
applyTranslationInvariant(vs, ts) ==
  translated(vs, center_gravity(vs, ts))

\* np.sign(v) * v * v
signedSquare(v) ==
  [a \in 1..3 |-> Mul(Mul(SignQ(v[a]), v[a]), v[a])]

RECURSIVE signsFrom(_, _, _, _)
signsFrom(vs, ts, i, signs) ==
  IF i > Len(ts) THEN signs
  ELSE signsFrom(vs, ts, i + 1,
         VAdd(signs,
              VScale(polygonArea(getTriVertices(vs, ts[i])),
                     signedSquare(triCentroid(getTriVertices(vs, ts[i]))))))

signs(vs, ts) ==
  VDiv(signsFrom(vs, ts, 1, VZero), surfaceArea(vs, ts))

new_signs(s) ==
  [a \in 1..3 |->
     IF Lt(s[a], Q(1, 100000)) /\ Lt(Q(-1, 100000), s[a]) THEN R(1) ELSE s[a]]

\* np.diag(np.sign(new_signs))
sign_mat(s) ==
  [r \in 1..3 |-> [a \in 1..3 |-> IF a = r THEN SignQ(s[a]) ELSE Zero]]

\* mat @ v
MatVec(mat, v) ==
  [r \in 1..3 |-> Dot(mat[r], v)]

\* the vertices applyReflectionInvariant leaves
applyReflectionInvariant(vs, ts) ==
  [i \in 1..Len(vs) |-> MatVec(sign_mat(new_signs(signs(vs, ts))), vs[i])]

absVec(v) ==
  [a \in 1..3 |-> AbsQ(v[a])]

RECURSIVE scalesFrom(_, _, _, _)
scalesFrom(vs, ts, i, scales) ==
  IF i > Len(ts) THEN scales
  ELSE scalesFrom(vs, ts, i + 1,
         VAdd(scales,
              VScale(polygonArea(getTriVertices(vs, ts[i])),
                     absVec(triCentroid(getTriVertices(vs, ts[i]))))))

scales(vs, ts) ==
  VDiv(scalesFrom(vs, ts, 1, VZero), surfaceArea(vs, ts))

\* invariant_scale squared: (np.linalg.norm(scales) / sqrt(3)) ** 2
scaleSquared(s) ==
  Div(Dot(s, s), R(3))

scaleExact(vs, ts) ==
  ~IsFinite(scaleSquared(scales(vs, ts))) \/ IsSquare(scaleSquared(scales(vs, ts)))

invariant_scale(vs, ts) ==
  Sqrt(scaleSquared(scales(vs, ts)))

\* the vertices applyScaleInvariant leaves
applyScaleInvariant(vs, ts) ==
  [i \in 1..Len(vs) |-> VDiv(vs[i], invariant_scale(vs, ts))]

\* tan of 12, 24, ..., 84 degrees to four places; no vertex of the meshes
\* below lies between a bound and the tangent it stands for
TanTable ==
  <<Q(2126, 10000), Q(4452, 10000), Q(7265, 10000), Q(11106, 10000),
    Q(17321, 10000), Q(30777, 10000), Q(95144, 10000)>>

\* the 12-degree sector of the first quadrant that holds the slope r > 0
sector(r) ==
  Cardinality({j \in 1..7 : Lt(TanTable[j], r)})

\* int(angle * (ANGLE_HISTOGRAM_SIZE / 2) / np.pi) for angle = atan2(-z, x)
\* brought into [0, 2 pi), by quadrant.  On the negative x axis angle is pi
\* and pi * 15.0 / pi evaluates to 14.999999999999998, hence 14.
quadrantBin(x, y, s) ==
  IF y[1] = 0 THEN (IF x[1] < 0 THEN 14 ELSE 0)
  ELSE IF x[1] = 0 THEN (IF y[1] > 0 THEN 7 ELSE 22)
  ELSE IF y[1] > 0 THEN (IF x[1] > 0 THEN s ELSE 14 - s)
  ELSE IF x[1] < 0 THEN 15 + s ELSE 29 - s

angleBin(v) ==
  quadrantBin(v[1], Neg(v[3]),
              IF v[1][1] = 0 THEN 7 ELSE sector(AbsQ(Div(v[3], v[1]))))

\* np.linalg.norm(v) of a finite v, with s = v . v, lies in [normLo, normHi],
\* whose ends are a step of the grid apart; they meet where the norm is
\* rational.  The grid is as fine as the integers at hand allow.
normGrid(s) ==
  IF s[2] < 32768 THEN 256 ELSE IF s[2] < 524288 THEN 64 ELSE 16

\* floor(s * g * g)
floorScaled(s, g) ==
  (s[1] \div s[2]) * g * g + ((s[1] % s[2]) * g * g) \div s[2]

normLo(s) ==
  IF IsSquare(s) THEN Sqrt(s)
  ELSE Q(ISqrt(floorScaled(s, normGrid(s))), normGrid(s))

normHi(s) ==
  IF IsSquare(s) THEN Sqrt(s)
  ELSE Q(ISqrt(floorScaled(s, normGrid(s))) + 1, normGrid(s))

\* bounds of xz_histogram[k][1] after the loop over the vertices
RECURSIVE binLo(_, _, _)
binLo(vs, k, i) ==
  IF i > Len(vs) THEN Zero
  ELSE Add(IF angleBin(vs[i]) = k THEN normLo(Dot(vs[i], vs[i])) ELSE Zero,
           binLo(vs, k, i + 1))

RECURSIVE binHi(_, _, _)
binHi(vs, k, i) ==
  IF i > Len(vs) THEN Zero
  ELSE Add(IF angleBin(vs[i]) = k THEN normHi(Dot(vs[i], vs[i])) ELSE Zero,
           binHi(vs, k, i + 1))

\* the bins that can come first in sorted(xz_histogram, key=lambda x: -x[1]),
\* a stable sort: no bin is certainly heavier, no earlier bin certainly as
\* heavy.  One bin where the bounds decide.
topBins(vs) ==
  {k \in 0..(ANGLE_HISTOGRAM_SIZE - 1) :
     /\ \A j \in 0..(ANGLE_HISTOGRAM_SIZE - 1) : ~Lt(binHi(vs, k, 1), binLo(vs, j, 1))
     /\ \A j \in 0..(k - 1) : Lt(binLo(vs, j, 1), binHi(vs, k, 1))}

allFinite(vs) ==
  \A i \in 1..Len(vs) : \A a \in 1..3 : IsFinite(vs[i][a])

\* atan2 of a NaN is NaN, and int(NaN) raises
angleNaN(vs) ==
  \E i \in 1..Len(vs) : IsNaN(vs[i][1]) \/ IsNaN(vs[i][3])

\* makeYRotMat(-0 * np.pi / 15): the identity
applyRotationInvariant(vs) ==
  [i \in 1..Len(vs) |->
     MatVec(<<V(1, 0, 0), V(0, 1, 0), V(0, 0, 1)>>, vs[i])]

MaxCalls ==
  3

MeshImport ==
  /\ task = "mesh"
  /\ pc = "import"
  /\ vertices' = importOBJFile(fname).vertices
  /\ triangles' = importOBJFile(fname).triangles
  /\ pc' = "mesh"
  /\ UNCHANGED <<task, apiVars, fourierVars, callVars, fname, gridVars, sampleVars>>

callable ==
  /\ task = "mesh"
  /\ pc = "mesh"
  /\ calls < MaxCalls
  /\ inexact = <<>>

returnSelf(method) ==
  /\ args' = <<method>>
  /\ ret' = "self"
  /\ calls' = calls + 1
  /\ UNCHANGED <<task, pc, fname, triangles, gridVars, sampleVars, fourierVars>>

TranslationStep ==
  /\ callable
  /\ unpackError(vertices, triangles, 1) = ""
  /\ vertices' = applyTranslationInvariant(vertices, triangles)
  /\ inexact' = inexact
  /\ returnSelf("applyTranslationInvariant")

RotationStep ==
  /\ callable
  /\ allFinite(vertices)
  /\ \E k \in topBins(vertices) :
       IF k = 0
       THEN vertices' = applyRotationInvariant(vertices) /\ inexact' = inexact
       ELSE vertices' = vertices /\ inexact' = <<"makeYRotMat", k>>
  /\ returnSelf("applyRotationInvariant")

ReflectionStep ==
  /\ callable
  /\ unpackError(vertices, triangles, 1) = ""
  /\ vertices' = applyReflectionInvariant(vertices, triangles)
  /\ inexact' = inexact
  /\ returnSelf("applyReflectionInvariant")

ScaleStep ==
  /\ callable
  /\ unpackError(vertices, triangles, 1) = ""
  /\ IF scaleExact(vertices, triangles)
     THEN /\ vertices' = applyScaleInvariant(vertices, triangles)
          /\ inexact' = inexact
     ELSE /\ vertices' = vertices
          /\ inexact' = <<"invariant_scale squared",
                          scaleSquared(scales(vertices, triangles))>>
  /\ returnSelf("applyScaleInvariant")

\* a step raises before it writes a vertex: a triangle that does not unpack
\* in the three steps that walk the triangles, a NaN angle in the rotation
StepRaises ==
  /\ callable
  /\ \/ /\ unpackError(vertices, triangles, 1) # ""
        /\ pc' = unpackError(vertices, triangles, 1)
        /\ \E method \in {"applyTranslationInvariant", "applyReflectionInvariant",
                           "applyScaleInvariant"} : args' = <<method>>
     \/ /\ angleNaN(vertices)
        /\ pc' = "ValueError"
        /\ args' = <<"applyRotationInvariant">>
  /\ calls' = calls + 1
  /\ UNCHANGED <<task, ret, meshVars, inexact, gridVars, sampleVars, fourierVars>>

(***************************************************************************)
(* Fourier buildFeatureVector, from the grid generateVoxelGrid returns.    *)
(* A coefficient sum(g * exp(2 pi i m / 64)) / 64 ** 1.5 is held as the    *)
(* sequence of its 64 rational weights, the one of exp(2 pi i m / 64) at   *)
(* place m + 1.                                                            *)
(***************************************************************************)
N_FOURIER ==
  64

HALF_N ==
  N_FOURIER \div 2

FEATURE_VEC_DIM ==
  3

\* grids generateVoxelGrid returns, by their cells that are not 0.0
VoxelGrids ==
  { <<>>,
    <<<<<<32, 32, 32>>, Q(1, 2)>>>>,
    <<<<<<0, 0, 0>>, R(1)>>, <<<<63, 10, 5>>, Q(3, 2)>>>>,
    <<<<<<31, 32, 33>>, Q(1, 4)>>, <<<<33, 32, 31>>, Q(1, 4)>>,
      <<<<40, 7, 63>>, R(2)>>>> }

\* i*u + j*v + k*w of a cell, as a multiple of 2 pi / N taken mod N
phase(c, u, v, w) ==
  ((c[1] - HALF_N) * u + (c[2] - HALF_N) * v + (c[3] - HALF_N) * w) % N_FOURIER

RECURSIVE weightFrom(_, _, _, _, _, _)
weightFrom(grid, i, u, v, w, m) ==
  IF i > Len(grid) THEN Zero
  ELSE Add(IF phase(grid[i][1], u, v, w) = m THEN grid[i][2] ELSE Zero,
           weightFrom(grid, i + 1, u, v, w, m))

\* coeff /= N ** 1.5
fourier3DCoefficient(grid, u, v, w) ==
  [m \in 1..N_FOURIER |-> Div(weightFrom(grid, 1, u, v, w, m - 1), R(512))]

\* np.real: the weights of cos(2 pi m / 64) for m = 0..15, a basis of the
\* real parts (cos(pi - x) = -cos(x), cos(-x) = cos(x), cos(pi / 2) = 0)
real(coeff) ==
  [m \in 1..(HALF_N \div 2) |->
     IF m = 1 THEN Sub(coeff[1], coeff[HALF_N + 1])
     ELSE Sub(Add(coeff[m], coeff[N_FOURIER + 2 - m]),
              Add(coeff[HALF_N + 2 - m], coeff[HALF_N + m]))]

\* the loop nest with w over range(-K, K), the upper end left out (for C15)
nextFreqExclusive(f) ==
  IF f[3] < FEATURE_VEC_DIM - 1 THEN <<f[1], f[2], f[3] + 1>>
  ELSE IF f[2] < FEATURE_VEC_DIM THEN <<f[1], f[2] + 1, -FEATURE_VEC_DIM>>
  ELSE <<f[1] + 1, -FEATURE_VEC_DIM, -FEATURE_VEC_DIM>>

\* the loop nest over u, v, w: the triple after f, w innermost
nextFreq(f) ==
  IF f[3] < FEATURE_VEC_DIM THEN <<f[1], f[2], f[3] + 1>>
  ELSE IF f[2] < FEATURE_VEC_DIM THEN <<f[1], f[2] + 1, -FEATURE_VEC_DIM>>
  ELSE <<f[1] + 1, -FEATURE_VEC_DIM, -FEATURE_VEC_DIM>>

\* the half without the midpoint (for C4)
halfWithoutMidpoint(len) ==
  len \div 2

\* int((len(feature_vec) + 1) / 2)
half_feature_vec(len) ==
  (len + 1) \div 2

GenerateVoxelGrid ==
  /\ task = "fourier"
  /\ pc = "grid"
  /\ voxel_grid' \in VoxelGrids
  /\ feature_vec' = <<>>
  /\ freq' = <<-FEATURE_VEC_DIM, -FEATURE_VEC_DIM, -FEATURE_VEC_DIM>>
  /\ pc' = "coefficients"
  /\ UNCHANGED <<task, apiVars, callVars, meshVars, gridVars, sampleVars>>

AppendCoefficient ==
  /\ task = "fourier"
  /\ pc = "coefficients"
  /\ freq[1] <= FEATURE_VEC_DIM
  /\ feature_vec' =
       Append(feature_vec, fourier3DCoefficient(voxel_grid, freq[1], freq[2], freq[3]))
  /\ freq' = nextFreq(freq)
  /\ UNCHANGED <<task, pc, apiVars, voxel_grid, callVars, meshVars, gridVars, sampleVars>>

FourierReturn ==
  /\ task = "fourier"
  /\ pc = "coefficients"
  /\ freq[1] > FEATURE_VEC_DIM
  /\ ret' = [i \in 1..half_feature_vec(Len(feature_vec)) |-> real(feature_vec[i])]
  /\ pc' = "done"
  /\ UNCHANGED <<task, args, apiVars, fourierVars, meshVars, gridVars, sampleVars>>

(***************************************************************************)
(* The runs                                                                *)
(***************************************************************************)
Tasks ==
  {"clipLine", "polygonArea", "importOBJFile", "d2", "mesh", "fourier"}

Init ==
  /\ task \in Tasks
  /\ pc = (IF task \in {"d2", "mesh"} THEN "import"
           ELSE IF task = "fourier" THEN "grid" ELSE "idle")
  /\ args = <<>>
  /\ ret = <<>>
  /\ fname \in (IF task \in {"d2", "mesh"} THEN Files ELSE {<<>>})
  /\ vertices = <<>>
  /\ triangles = <<>>
  /\ bbox_min = VZero
  /\ increments = VZero
  /\ tri_idx = 0
  /\ cell_idx = 0
  /\ clip = [v_out |-> <<>>, sizes |-> <<>>, stopped |-> FALSE]
  /\ subdivided_mesh = EmptyGrid
  /\ cx = 0
  /\ d2_histograms = EmptyGrid
  /\ d2_measurements = <<>>
  /\ sample_pts = <<>>
  /\ sample_tri = <<>>
  /\ alpha = Zero
  /\ beta = Zero
  /\ sample_pt = VZero
  /\ calls = 0
  /\ inexact = <<>>
  /\ voxel_grid = <<>>
  /\ freq = <<0, 0, 0>>
  /\ feature_vec = <<>>

NextCalls ==
  \/ CallClipLine
  \/ CallPolygonArea
  \/ CallImportOBJFile

NextD2 ==
  \/ D2Import
  \/ D2Grid
  \/ D2GridFail
  \/ addTriToVoxel
  \/ AttributeSkip
  \/ AttributeFail
  \/ AttributeDone
  \/ CellZero
  \/ CellBegin
  \/ PickTri
  \/ DrawBary
  \/ RejectBary
  \/ AcceptBary
  \/ RejectPoint
  \/ AcceptPoint
  \/ D2Return

NextMesh ==
  \/ MeshImport
  \/ TranslationStep
  \/ RotationStep
  \/ ReflectionStep
  \/ ScaleStep
  \/ StepRaises

NextFourier ==
  \/ GenerateVoxelGrid
  \/ AppendCoefficient
  \/ FourierReturn

Next ==
  \/ NextCalls
  \/ NextD2
  \/ NextMesh
  \/ NextFourier

Spec ==
  Init /\ [][Next]_vars

\* the runs of one entry point each
InitCalls ==
  Init /\ task \in {"clipLine", "polygonArea", "importOBJFile"}

SpecCalls ==
  InitCalls /\ [][NextCalls]_vars

InitD2 ==
  Init /\ task = "d2"

SpecD2 ==
  InitD2 /\ [][NextD2]_vars

InitMesh ==
  Init /\ task = "mesh"

SpecMesh ==
  InitMesh /\ [][NextMesh]_vars

InitFourier ==
  Init /\ task = "fourier"

SpecFourier ==
  InitFourier /\ [][NextFourier]_vars

\* the D2 build keeps running while it can; on the files with one
\* triangle to sample at most
InitFairD2 ==
  InitD2 /\ fname \in {FileTwoCells, FileEmpty, FileBareFace, FileFlat}

\* the build has returned or raised
Halted ==
  pc \in {"done", "TypeError", "IndexError", "ValueError"}

\* the build moves on to another program point
Proceeds ==
  /\ ~Halted
  /\ pc' \in {"bbox", "attribute", "cell", "pick", "draw", "bary", "contain",
              "done", "TypeError", "IndexError", "ValueError"}

FairSpecD2 ==
  InitFairD2 /\ [][NextD2]_vars /\ WF_pc(Proceeds)

(***************************************************************************)
(* Properties                                                              *)
(***************************************************************************)
signedDist(x, p, n) ==
  Dot(VSub(x, p), n)

\* C1: clipLine(a, b, p, n) has exactly four outcomes, decided by the signed
\* distances clip_a and clip_b with 0 counted as inside: status 0 with
\* [a, b], status 1 with [], status 2 with [intersection, b], status 3 with
\* [a, intersection]; the intersection has signed distance 0 to the plane.
C1_ClipLineOutcomes ==
  (task = "clipLine" /\ pc = "returned") =>
    LET a == args[1]
        b == args[2]
        ca == signedDist(args[1], args[3], args[4])
        cb == signedDist(args[2], args[3], args[4])
    IN  /\ (ca[1] >= 0 /\ cb[1] >= 0) => ret = <<0, <<a, b>>>>
        /\ (ca[1] < 0 /\ cb[1] < 0) => ret = <<1, <<>>>>
        /\ (ca[1] < 0 /\ cb[1] >= 0) =>
             /\ ret[1] = 2 /\ Len(ret[2]) = 2 /\ ret[2][2] = b
             /\ signedDist(ret[2][1], args[3], args[4]) = Zero
        /\ (ca[1] >= 0 /\ cb[1] < 0) =>
             /\ ret[1] = 3 /\ Len(ret[2]) = 2 /\ ret[2][1] = a
             /\ signedDist(ret[2][2], args[3], args[4]) = Zero

\* a crossing segment whose first end lies exactly on the plane was clipped
C1_Witness ==
  /\ task = "clipLine" /\ pc = "returned"
  /\ signedDist(args[1], args[3], args[4]) = Zero
  /\ signedDist(args[2], args[3], args[4])[1] < 0
  /\ ret[1] = 3

(***************************************************************************)
(* Triangle against box, decided without clipping (separating axes)       *)
(***************************************************************************)
cellLo(c) ==
  [i \in 1..3 |-> Add(bbox_min[i], Mul(increments[i], R(c[i])))]

cellHi(c) ==
  [i \in 1..3 |-> Add(bbox_min[i], Mul(increments[i], R(c[i] + 1)))]

boxCorners(lo, hi) ==
  {<<x, y, z>> : x \in {lo[1], hi[1]}, y \in {lo[2], hi[2]}, z \in {lo[3], hi[3]}}

\* axis a separates the point sets A and B strictly
separates(a, A, B) ==
  \/ \A x \in A, y \in B : Lt(Dot(a, x), Dot(a, y))
  \/ \A x \in A, y \in B : Lt(Dot(a, y), Dot(a, x))

unitAxes ==
  {V(1, 0, 0), V(0, 1, 0), V(0, 0, 1)}

triAxes(vs) ==
  unitAxes
    \cup {Cross(VSub(vs[2], vs[1]), VSub(vs[3], vs[1]))}
    \cup {Cross(VSub(vs[j], vs[i]), u) :
            i \in 1..3, j \in 1..3, u \in unitAxes}

triDisjointFrom(vs, c) ==
  \E a \in triAxes(vs) :
    separates(a, {vs[1], vs[2], vs[3]}, boxCorners(cellLo(c), cellHi(c)))

triInside(vs, c) ==
  \A i \in 1..3 : inSubdivBBox(vs[i], bbox_min, increments, c)

\* the cell of the addTriToVoxel call the next step makes
callCell ==
  cellAt(cell_idx, voxelRange(curTri, bbox_min, increments))

isAddTriToVoxelStep ==
  pc = "attribute" /\ subdivided_mesh' # subdivided_mesh

\* the area the step attributes: the entry it appends to the cell's list
attributedArea ==
  subdivided_mesh'[callCell][Len(subdivided_mesh'[callCell])][2]

\* C2 (as claimed): a cell holding all three vertices gives back the
\* original 3 vertices and the triangle's area; a cell the triangle does not
\* intersect empties the vertex list at some plane, stops the loop early and
\* is attributed area 0.
C2_ContainedOrDisjoint ==
  [][isAddTriToVoxelStep /\ Len(curTri) = 3 =>
       /\ triInside(curTri, callCell) =>
            /\ clip'.v_out = curTri
            /\ attributedArea = polygonArea(curTri)
       /\ triDisjointFrom(curTri, callCell) =>
            /\ clip'.v_out = <<>>
            /\ clip'.stopped
            /\ Len(clip'.sizes) <= 6
            /\ attributedArea = Zero]_vars

\* C2 (amended): a containing cell gives back the original 3 vertices when
\* they are pairwise distinct, and in every case the triangle's area and no
\* early stop; the rest as claimed.
C2_ContainedDistinctOrDisjoint ==
  [][isAddTriToVoxelStep /\ Len(curTri) = 3 =>
       /\ triInside(curTri, callCell) =>
            /\ Cardinality({curTri[1], curTri[2], curTri[3]}) = 3
                 => clip'.v_out = curTri
            /\ ~clip'.stopped
            /\ attributedArea = polygonArea(curTri)
       /\ triDisjointFrom(curTri, callCell) =>
            /\ clip'.v_out = <<>>
            /\ clip'.stopped
            /\ Len(clip'.sizes) <= 6
            /\ attributedArea = Zero]_vars

\* a triangle of positive area was clipped against a cell holding it, and a
\* call on a cell it does not meet emptied the list only at a later plane
C2_Witness ==
  /\ task = "d2" /\ pc = "cell"
  /\ \E c \in Cells : \E i \in 1..Len(subdivided_mesh[c]) :
       /\ triInside(subdivided_mesh[c][i][1], c)
       /\ Lt(Zero, subdivided_mesh[c][i][2])
  /\ \E c \in Cells : \E i \in 1..Len(subdivided_mesh[c]) :
       /\ triDisjointFrom(subdivided_mesh[c][i][1], c)
       /\ Len(clipTri(subdivided_mesh[c][i][1], bbox_min, increments, c).sizes) > 1

(***************************************************************************)
(* Area bookkeeping of the attribution loops                               *)
(***************************************************************************)
RECURSIVE entriesArea(_, _, _)
entriesArea(subdivision, vs, i) ==
  IF i > Len(subdivision) THEN Zero
  ELSE Add(IF subdivision[i][1] = vs THEN subdivision[i][2] ELSE Zero,
           entriesArea(subdivision, vs, i + 1))

\* the area attributed to triangle vs, summed over the first n cells
RECURSIVE areaBetween(_, _, _)
areaBetween(vs, lo, hi) ==
  IF lo > hi THEN Zero
  ELSE IF lo = hi THEN entriesArea(subdivided_mesh[cellOf(lo)], vs, 1)
  ELSE Add(areaBetween(vs, lo, (lo + hi) \div 2),
           areaBetween(vs, (lo + hi) \div 2 + 1, hi))
areaOver(vs, n) ==
  areaBetween(vs, 0, n - 1)

\* inside the attribution loops, or just through them
attributionState ==
  pc = "attribute" \/ (pc = "cell" /\ cx = 0)

\* triangles done by the attribution loops
doneTris ==
  IF pc = "attribute" THEN tri_idx ELSE Len(triangles)

sameTris(vs) ==
  Cardinality({j \in 1..doneTris : getTriVertices(vertices, triangles[j]) = vs})

\* the polygon pts lies in the upper boundary plane of cell c on some axis
inUpperFace(pts, c) ==
  \E a \in 1..3 : \A j \in 1..Len(pts) : pts[j][a] = cellHi(c)[a]

\* C3 (as claimed): once the loops are through a triangle, the areas
\* attributed to it over the cells of its index range add up to its
\* polygonArea, and every cell outside the range gets none of it and
\* clips it to area 0.
C3_AreaPartition ==
  (task = "d2" /\ attributionState) =>
    \A i \in 1..doneTris :
      LET vs == getTriVertices(vertices, triangles[i])
          rng == voxelRange(vs, bbox_min, increments)
      IN  /\ areaOver(vs, N * N * N) = Mul(R(sameTris(vs)), polygonArea(vs))
          /\ \A c \in Cells :
               \/ InRange(c, rng)
               \/ /\ entriesArea(subdivided_mesh[c], vs, 1) = Zero
                  /\ polygonArea(clipTri(vs, bbox_min, increments, c).v_out) = Zero

\* C3 (amended): the attributed areas add up to the triangle's polygonArea,
\* and a cell outside the index range gets none of it and meets the triangle
\* in area 0 or only in the cell's own upper boundary plane, the plane it
\* shares with the cell that the triangle is attributed to.
C3_AreaPartitionUpToFaces ==
  (task = "d2" /\ attributionState) =>
    \A i \in 1..doneTris :
      LET vs == getTriVertices(vertices, triangles[i])
          rng == voxelRange(vs, bbox_min, increments)
      IN  /\ areaOver(vs, N * N * N) = Mul(R(sameTris(vs)), polygonArea(vs))
          /\ \A c \in Cells :
               \/ InRange(c, rng)
               \/ /\ entriesArea(subdivided_mesh[c], vs, 1) = Zero
                  /\ \/ polygonArea(clipTri(vs, bbox_min, increments, c).v_out) = Zero
                     \/ inUpperFace(clipTri(vs, bbox_min, increments, c).v_out, c)

\* a triangle of positive area was split over several cells of positive
\* area, one of its vertices lying exactly on a plane between two cells
C3_Witness ==
  /\ task = "d2" /\ pc = "cell"
  /\ \E i \in 1..Len(triangles) :
       LET vs == getTriVertices(vertices, triangles[i])
       IN  /\ Lt(Zero, polygonArea(vs))
           /\ Cardinality({c \in Cells :
                  Lt(Zero, entriesArea(subdivided_mesh[c], vs, 1))}) >= 3
           /\ \E c \in Cells, j \in 1..3, a \in 1..3 :
                c[a] > 0 /\ vs[j][a] = cellLo(c)[a]

(***************************************************************************)
(* The histograms the D2 build returns                                     *)
(***************************************************************************)
sampling ==
  pc \in {"pick", "draw", "bary", "contain"}

\* C5: the D2 build returns a histogram for each of the 4 x 4 x 4 = 64
\* cells, each of 10 bins; a cell whose list sums to area 0 (an empty list
\* included) has all 10 bins 0, and no sampling is done for it.
C5_HistogramPerCell ==
  task = "d2" =>
    /\ pc = "done" =>
         /\ DOMAIN ret = (0..3) \X (0..3) \X (0..3)
         /\ Cardinality(DOMAIN ret) = 64
         /\ \A c \in DOMAIN ret :
              /\ DOMAIN ret[c] = 1..10
              /\ totalArea(subdivided_mesh[c]) = Zero =>
                   ret[c] = [b \in 1..10 |-> 0]
    /\ sampling => totalArea(subdivided_mesh[cellOf(cx)]) # Zero
    /\ (pc = "cell" /\ cx > 0 /\ totalArea(subdivided_mesh[cellOf(cx - 1)]) = Zero) =>
         d2_histograms[cellOf(cx - 1)] = [b \in 1..10 |-> 0]

\* a build returned with a cell of an empty list, a cell whose only entries
\* have area 0, and a sampled cell
C5_Witness ==
  /\ task = "d2" /\ pc = "done"
  /\ \E c \in Cells : subdivided_mesh[c] = <<>>
  /\ \E c \in Cells :
       subdivided_mesh[c] # <<>> /\ totalArea(subdivided_mesh[c]) = Zero
  /\ \E c \in Cells : \E b \in 1..10 : ret[c][b] > 0

\* C7 (as claimed): both rejection loops stop: every draw of alpha and beta
\* is followed by an accepted point.
C7_LoopsTerminate ==
  (task = "d2" /\ pc = "draw") ~> (pc \in {"pick", "cell"})

(***************************************************************************)
(* The Fourier feature vector                                              *)
(***************************************************************************)
\* the (u, v, w) at flattened index i, counted from 0, u outermost
tripleAt(i) ==
  <<(i \div 49) - 3, ((i \div 7) % 7) - 3, (i % 7) - 3>>

coefficientAt(i) ==
  fourier3DCoefficient(voxel_grid, tripleAt(i)[1], tripleAt(i)[2], tripleAt(i)[3])

\* C4: the Fourier build computes one coefficient per (u, v, w) in -3..3,
\* u outermost and w innermost, 343 in all, and returns the real parts of
\* the first 172, indices 0..171; index 171 is that of (0, 0, 0).
C4_FirstHalfRealParts ==
  task = "fourier" =>
    /\ (pc = "coefficients" /\ feature_vec # <<>>) =>
         /\ Len(feature_vec) <= 343
         /\ feature_vec[Len(feature_vec)] = coefficientAt(Len(feature_vec) - 1)
    /\ pc = "done" =>
         /\ Len(feature_vec) = 343
         /\ \A i \in 1..343 : feature_vec[i] = coefficientAt(i - 1)
         /\ {tripleAt(i) : i \in 0..342} = (-3..3) \X (-3..3) \X (-3..3)
         /\ Len(ret) = 172
         /\ \A i \in 1..172 : ret[i] = real(coefficientAt(i - 1))
         /\ tripleAt(171) = <<0, 0, 0>>

\* a build returned for a grid of several cells; the zero frequency has a
\* real part and some kept coefficient an imaginary part that is dropped
C4_Witness ==
  /\ task = "fourier" /\ pc = "done"
  /\ Len(voxel_grid) > 1
  /\ ret[172][1] # Zero
  /\ \E i \in 1..172 : feature_vec[i][2] # feature_vec[i][64]

(***************************************************************************)
(* polygonArea on degenerate input                                         *)
(***************************************************************************)
\* every triple the scan for a normal looks at has a zero cross product
scanFindsNoNormal(pts) ==
  \A i \in 1..(Len(pts) - 2) :
    Cross(VSub(pts[i + 1], pts[i]), VSub(pts[i + 2], pts[i])) = VZero

\* C8: polygonArea returns exactly 0, and does return, for a list of fewer
\* than 3 points and for a list of 4 or more points in which every triple
\* scanned has a zero cross product.
C8_DegenerateAreaZero ==
  (task = "polygonArea" /\ pc = "returned") =>
    /\ Len(args[1]) < 3 => ret = Zero
    /\ (Len(args[1]) >= 4 /\ scanFindsNoNormal(args[1])) => ret = Zero

\* four distinct collinear points were measured
C8_Witness ==
  /\ task = "polygonArea" /\ pc = "returned"
  /\ Len(args[1]) = 4
  /\ Cardinality({args[1][i] : i \in 1..4}) = 4
  /\ scanFindsNoNormal(args[1])
  /\ ret = Zero

(***************************************************************************)
(* The canonicalization steps                                              *)
(***************************************************************************)
\* the step just taken is a call of a TriMesh method
isCall ==
  task = "mesh" /\ pc = "mesh" /\ calls' = calls + 1

\* C6 (as claimed): on a mesh of surface area 0 the translation, reflection
\* and scale steps raise and leave every vertex as it was.
C6_ZeroAreaRejected ==
  [][(/\ isCall
      /\ args' # <<"applyRotationInvariant">>
      /\ allFinite(vertices)
      /\ unpackError(vertices, triangles, 1) = ""
      /\ surfaceArea(vertices, triangles) = Zero) =>
       /\ pc' # "mesh"
       /\ vertices' = vertices]_vars

RECURSIVE momentFrom(_, _, _)
momentFrom(vs, ts, i) ==
  IF i > Len(ts) THEN VZero
  ELSE VAdd(VScale(polygonArea(getTriVertices(vs, ts[i])),
                   VDiv(VAdd(VAdd(vs[ts[i][1] + 1], vs[ts[i][2] + 1]),
                             vs[ts[i][3] + 1]), R(3))),
            momentFrom(vs, ts, i + 1))

\* C10: after applyTranslationInvariant on a mesh of positive surface area
\* the area-weighted centroid is the origin, and a second
\* applyTranslationInvariant leaves every vertex as it is.
C10_TranslationIdempotent ==
  [][(/\ isCall
      /\ pc' = "mesh"
      /\ args' = <<"applyTranslationInvariant">>
      /\ allFinite(vertices)
      /\ Lt(Zero, surfaceArea(vertices, triangles))) =>
       /\ VDiv(momentFrom(vertices', triangles, 1),
               surfaceArea(vertices', triangles)) = VZero
       /\ applyTranslationInvariant(vertices', triangles) = vertices']_vars

\* a mesh of two triangles was moved by the translation, and translated again
C10_Witness ==
  /\ task = "mesh" /\ pc = "mesh"
  /\ calls = 2
  /\ args = <<"applyTranslationInvariant">>
  /\ Len(triangles) = 2
  /\ Lt(Zero, surfaceArea(vertices, triangles))
  /\ momentFrom(vertices, triangles, 1) = VZero
  /\ vertices # importOBJFile(fname).vertices
  /\ applyTranslationInvariant(vertices, triangles) = vertices

(***************************************************************************)
(* The cells of the vertices                                               *)
(***************************************************************************)
\* the grid of the build is laid out: bbox_min and increments are assigned
gridLaidOut ==
  task = "d2" /\ pc \in {"attribute", "cell", "pick", "draw", "bary", "contain", "done"}

\* C11 (as claimed): once the box is expanded and the cell size derived,
\* the cell size is nonzero on every axis and findVoxelCoords gives every
\* vertex of the mesh a cell of the N x N x N grid.
C11_VerticesInGrid ==
  gridLaidOut =>
    /\ \A a \in 1..3 : IsFinite(increments[a]) /\ ~IsZero(increments[a])
    /\ \A i \in 1..Len(vertices) :
         /\ findVoxelOk(vertices[i], bbox_min, increments)
         /\ findVoxelCoords(vertices[i], bbox_min, increments) \in Cells

(***************************************************************************)
(* The mesh importOBJFile returns                                          *)
(***************************************************************************)
\* C12 (as claimed): in every mesh importOBJFile returns, each triangle is
\* a triple of indices i with 0 <= i < number of vertices, whatever the
\* references of the face lines.
C12_MeshInvariant ==
  (task = "importOBJFile" /\ pc = "returned") =>
    \A t \in 1..Len(ret.triangles) :
      /\ Len(ret.triangles[t]) = 3
      /\ \A k \in 1..3 :
           0 <= ret.triangles[t][k] /\ ret.triangles[t][k] < Len(ret.vertices)

(***************************************************************************)
(* The size of the clipped polygon                                         *)
(***************************************************************************)
\* len(v_in) before the k-th plane of a clip of a triangle
sizeBefore(sizes, k) ==
  IF k = 1 THEN 3 ELSE sizes[k - 1]

\* C13: in addTriToVoxel each half-space clip followed by dedupPoints adds
\* at most one vertex to the polygon, so after the k-th plane it has at most
\* 3 + k vertices, and the polygon passed to polygonArea at most 9.
C13_OneVertexPerPlane ==
  [][(isAddTriToVoxelStep /\ Len(curTri) = 3) =>
       /\ \A k \in 1..Len(clip'.sizes) :
            /\ clip'.sizes[k] <= sizeBefore(clip'.sizes, k) + 1
            /\ clip'.sizes[k] <= 3 + k
       /\ Len(clip'.v_out) <= 9]_vars

\* a clip through all six planes in which two planes each added a vertex
\* and a later plane removed some
C13_Witness ==
  /\ task = "d2"
  /\ Len(clip.sizes) = 6
  /\ ~clip.stopped
  /\ Cardinality({k \in 1..6 : clip.sizes[k] = sizeBefore(clip.sizes, k) + 1}) >= 2
  /\ \E k \in 1..6 : clip.sizes[k] < sizeBefore(clip.sizes, k)
  /\ Len(clip.v_out) >= 4

(***************************************************************************)
(* The matrix of the reflection step                                       *)
(***************************************************************************)
\* the entry the claim gives the axis of signed moment s
claimedEntry(s) ==
  IF Lt(Q(-1, 100000), s) /\ Lt(s, Q(1, 100000)) THEN 1
  ELSE IF Lt(s, Zero) THEN -1 ELSE 1

\* vs with the coordinates of every vertex multiplied by the diagonal d
reflectedBy(vs, d) ==
  [i \in 1..Len(vs) |-> [a \in 1..3 |-> Mul(R(d[a]), vs[i][a])]]

\* C14 (as claimed): applyReflectionInvariant multiplies every vertex by a
\* diagonal of entries +1 or -1, +1 on an axis whose signed moment s has
\* -1e-5 < s < 1e-5 and the sign of s otherwise, and a second application
\* multiplies by the identity.
C14_ReflectionDiagonal ==
  [][(/\ isCall
      /\ pc' = "mesh"
      /\ args' = <<"applyReflectionInvariant">>
      /\ allFinite(vertices)) =>
       /\ vertices' =
            reflectedBy(vertices,
                        [a \in 1..3 |-> claimedEntry(signs(vertices, triangles)[a])])
       /\ applyReflectionInvariant(vertices', triangles) = vertices']_vars

(***************************************************************************)
(* The symmetry of the frequency order                                     *)
(***************************************************************************)
\* the complex conjugate: the weight of exp(2 pi i m / 64) goes to
\* exp(-2 pi i m / 64)
conj(coeff) ==
  [m \in 1..64 |-> coeff[((64 - (m - 1)) % 64) + 1]]

negated(f) ==
  <<-f[1], -f[2], -f[3]>>

\* C15: the loops visit the triple tripleAt(i) at flattened index i; the
\* triple at index 342 - i is the negation of the one at i, the coefficient
\* at 342 - i is the conjugate of the one at i, and the kept indices 0..171
\* hold exactly one member of every such pair, and the zero frequency.
C15_SymmetricOrder ==
  task = "fourier" =>
    /\ (pc = "coefficients" /\ freq[1] <= 3) => freq = tripleAt(Len(feature_vec))
    /\ (pc = "coefficients" /\ freq[1] > 3) => Len(feature_vec) = 343
    /\ pc = "done" =>
         /\ Len(feature_vec) = 343
         /\ \A i \in 0..342 :
              /\ tripleAt(342 - i) = negated(tripleAt(i))
              /\ feature_vec[(342 - i) + 1] = conj(feature_vec[i + 1])
              /\ i # 171 => ((i \in 0..171) # ((342 - i) \in 0..171))
              /\ \A j \in 0..342 : tripleAt(j) = tripleAt(i) => j = i
         /\ tripleAt(171) = <<0, 0, 0>>
         /\ Len(ret) = 172

\* a build returned in which a kept coefficient has an imaginary part, so
\* that the dropped one, its conjugate, differs from it
C15_Witness ==
  /\ task = "fourier" /\ pc = "done"
  /\ \E i \in 0..170 :
       /\ feature_vec[i + 1] # conj(feature_vec[i + 1])
       /\ feature_vec[(342 - i) + 1] # feature_vec[i + 1]
       /\ feature_vec[(342 - i) + 1] = conj(feature_vec[i + 1])

====
